---- MODULE Spec2Model ----
\* Panel menu construction of the dashboard scene
\* (public/app/features/dashboard-scene/scene/PanelMenuBehavior.tsx):
\* the asynchronous activation behaviour that builds the items of a
\* VizPanelMenu, and the click handlers of the items that change state.
EXTENDS Integers, Sequences, FiniteSets, TLC

\* ------------------------------------------------------------------ bounds
MaxActivations == 2
MaxLinks == 1
MaxChanges == 2
MaxClicks == 2
MaxExtensions == 5

Acts == 1..MaxActivations

\* ------------------------------------------------------------ menu items
\* A PanelMenuItem: its text, its icon, and its subMenu when it has one.
Leaf(text, icon) ==
  [text |-> text, iconClassName |-> icon, hasSubMenu |-> FALSE, subMenu |-> <<>>]

Parent(text, icon, sub) ==
  [text |-> text, iconClassName |-> icon, hasSubMenu |-> TRUE, subMenu |-> sub]

ViewItem == Leaf("View", "eye")
EditItem == Leaf("Edit", "edit")
ShareItem == Leaf("Share", "share-alt")
ExploreItem == Leaf("Explore", "compass")
ExitFullscreenItem == Leaf("Exit fullscreen", "arrow-left")
RemoveItem == Leaf("", "times")
ConvertToTableItem == Leaf("Convert to table", "table")
DuplicateItem == Leaf("Duplicate", "copy")
CopyItem == Leaf("Copy", "clipboard-alt")
UnlinkLibraryPanelItem == Leaf("Unlink library panel", "unlink")
CreateLibraryPanelItem == Leaf("Create library panel", "library-panel")
PanelTimeOverrideItem == Leaf("Panel time override", "clock-nine")
NewAlertRuleItem == Leaf("New alert rule", "bell")
GetHelpItem == Leaf("Get help", "question-circle")

InspectItem ==
  Parent("Inspect", "info-circle",
         <<Leaf("Data", ""), Leaf("Query", ""), Leaf("Panel JSON", "")>>)

\* The VizPanelLinksMenu built from the panel's links, one entry per link.
PanelLinksMenu(links) == [i \in 1..links |-> Leaf("Link", "")]

PanelLinksItem(links) ==
  Parent("Panel links", "external-link-alt", PanelLinksMenu(links))

MoreItem(moreSubMenu) == Parent("More...", "cube", moreSubMenu)

\* --------------------------------------------------- plugin extensions
Ext(type, title, description) ==
  [type |-> type, title |-> title, description |-> description]

IsLinkExtension(x) == x.type = "link"

HasTitleAndDescription_TitleOnly(x) == x.title # ""

HasTitleAndDescription(x) == x.title # "" /\ x.description # ""

\* extensions.filter(type === link).filter(title && description).slice(0, 3)
LinkExtensions(extensions) ==
  LET links == SelectSeq(SelectSeq(extensions, IsLinkExtension), HasTitleAndDescription)
  IN  SubSeq(links, 1, IF Len(links) < 3 THEN Len(links) ELSE 3)

\* createExtensionSubMenu: one entry per link extension, in order.
CreateExtensionSubMenu(linkExtensions) ==
  [i \in 1..Len(linkExtensions) |-> Leaf(linkExtensions[i].title, "")]

\* ------------------------------------------------- the steps of the build
\* getExploreMenuItem, after tryGetExploreUrlForPanel resolved: the item, or
\* nothing when there is no access to explore or no URL.
ExploreMenuItem(access, exploreUrl) ==
  IF access /\ exploreUrl THEN <<ExploreItem>> ELSE <<>>

EditItems_OnlyWhenEditing(e, isReadOnlyRepeat) ==
  IF e.canEditDashboard /\ e.editable /\ ~isReadOnlyRepeat /\ ~e.editPanel /\ e.isEditing
  THEN <<EditItem>> ELSE <<>>

ViewItems(e) == IF ~e.editPanel THEN <<ViewItem>> ELSE <<>>

EditItems(e, isReadOnlyRepeat) ==
  IF e.canEditDashboard /\ e.editable /\ ~isReadOnlyRepeat /\ ~e.editPanel
  THEN <<EditItem>> ELSE <<>>

ExitFullscreenItems(e) == IF e.viewPanelScene THEN <<ExitFullscreenItem>> ELSE <<>>

RemoveItems(e, isReadOnlyRepeat) ==
  IF ~e.editPanel /\ e.canEditDashboard /\ ~isReadOnlyRepeat
  THEN <<RemoveItem>> ELSE <<>>

MainItems_RemoveBeforeExit(e, isReadOnlyRepeat) ==
  ViewItems(e) \o EditItems(e, isReadOnlyRepeat) \o RemoveItems(e, isReadOnlyRepeat)
    \o ExitFullscreenItems(e)

\* items, as pushed before the sub menu is appended
MainItems(e, isReadOnlyRepeat) ==
  ViewItems(e) \o EditItems(e, isReadOnlyRepeat) \o ExitFullscreenItems(e)
    \o RemoveItems(e, isReadOnlyRepeat)

\* subMenu, as pushed before "More..." is appended
SubMenuItems(e, exploreMenuItem) ==
  <<ShareItem>> \o exploreMenuItem \o <<InspectItem>>
    \o CreateExtensionSubMenu(LinkExtensions(e.extensions))

PieChartItems(e) ==
  IF e.pluginId = "piechart" /\ e.legendDisplayMode = "table"
  THEN <<ConvertToTableItem>> ELSE <<>>

DuplicateCopyItems(e, isReadOnlyRepeat) ==
  IF e.canEditDashboard /\ ~isReadOnlyRepeat
  THEN <<DuplicateItem, CopyItem>> ELSE <<>>

LibraryPanelItems(e) ==
  IF e.isLibraryPanel
  THEN (IF e.canEditDashboard THEN <<UnlinkLibraryPanelItem>> ELSE <<>>)
  ELSE (IF e.hasAccessToExplore /\ e.pluginId # "timeseries"
        THEN <<CreateLibraryPanelItem>> ELSE <<>>)

PanelLinksItems(e) == IF e.links > 0 THEN <<PanelLinksItem(e.links)>> ELSE <<>>

\* moreSubMenu, as pushed before the alert availability is awaited
MoreSubMenuItems(e, isReadOnlyRepeat) ==
  PieChartItems(e) \o DuplicateCopyItems(e, isReadOnlyRepeat) \o LibraryPanelItems(e)
    \o <<PanelTimeOverrideItem>> \o PanelLinksItems(e)

NewAlertRuleItems_ForRepeats(canCreateAlertRule, isReadOnlyRepeat) ==
  IF canCreateAlertRule THEN <<NewAlertRuleItem>> ELSE <<>>

NewAlertRuleItems(canCreateAlertRule, isReadOnlyRepeat) ==
  IF canCreateAlertRule /\ ~isReadOnlyRepeat THEN <<NewAlertRuleItem>> ELSE <<>>

MoreItems_HelpFirst(moreSubMenu) ==
  IF Len(moreSubMenu) > 0 THEN <<MoreItem(<<GetHelpItem>> \o moreSubMenu)>> ELSE <<>>

\* the closing of the "More..." sub menu
MoreItems(moreSubMenu) ==
  IF Len(moreSubMenu) > 0 THEN <<MoreItem(moreSubMenu \o <<GetHelpItem>>)>> ELSE <<>>

\* the list handed to menu.setState for a dashboard that is not embedded
FinalItems(items, subMenu, moreSubMenu, canCreateAlertRule, isReadOnlyRepeat) ==
  items \o subMenu
    \o MoreItems(moreSubMenu \o NewAlertRuleItems(canCreateAlertRule, isReadOnlyRepeat))

\* The whole build over a dashboard state that does not change meanwhile.
PanelMenuItems(e) ==
  FinalItems(MainItems(e, e.isRepeatClone),
             SubMenuItems(e, ExploreMenuItem(e.hasAccessToExplore, e.exploreUrl)),
             MoreSubMenuItems(e, e.isRepeatClone),
             e.canCreateAlertRule, e.isRepeatClone)


\* ------------------------------------------------------------------ state
VARIABLES
  env,            \* what the dashboard, the panel and the services answer
  items,          \* menu.state.items
  pc,             \* where each activation of panelMenuBehavior stands
  loc,            \* the locals of each activation's asyncFunc
  started,        \* the activations in the order they started
  computed,       \* per activation, the list it handed to menu.setState
  didSet,         \* per activation, whether it called menu.setState
  allEmbedded,    \* the dashboard was embedded at every activation so far
  errorLog,       \* calls of console.error
  unhandled,      \* rejections nobody handled
  changes,        \* dashboard state changes so far
  modals,         \* confirm modals that are open
  removeClicks,   \* clicks on the remove item
  confirms,       \* modals confirmed
  removeCalls,    \* calls of dashboard.removePanel
  alertClicks,    \* clicks on "New alert rule"
  pendingSaves,   \* saveAndUpdate calls that have not reported yet
  navigations,    \* locationService.push to /alerting/new/alerting
  notifications   \* "Panel not saved" error notifications dispatched

uiVars == <<modals, removeClicks, confirms, removeCalls, alertClicks,
            pendingSaves, navigations, notifications>>

actVars == <<items, pc, loc, started, computed, didSet, allEmbedded, errorLog, unhandled>>

vars == <<env, items, pc, loc, started, computed, didSet, allEmbedded, errorLog,
          unhandled, changes, modals, removeClicks, confirms, removeCalls,
          alertClicks, pendingSaves, navigations, notifications>>

LinkA == Ext("link", "A", "a")

ExtRegistries == {<<>>, <<LinkA>>}

Plugins == {<<"timeseries", "list">>, <<"piechart", "table">>,
            <<"piechart", "list">>, <<"table", "list">>}

MkEnv(emb, ep, ce, ed, rep, vp, pl, lib, acc, url, ln, ex, al, dirty, editing) ==
  [isEmbedded |-> emb, editPanel |-> ep, canEditDashboard |-> ce, editable |-> ed,
   isRepeatClone |-> rep, viewPanelScene |-> vp, pluginId |-> pl[1],
   legendDisplayMode |-> pl[2], isLibraryPanel |-> lib, hasAccessToExplore |-> acc,
   exploreUrl |-> url, links |-> ln, extensions |-> ex, canCreateAlertRule |-> al,
   isDirty |-> dirty, isEditing |-> editing, removed |-> FALSE]

\* every combination of the inputs of the build
AllEnvs ==
  { MkEnv(emb, ep, ce, ed, rep, vp, pl, lib, acc, url, ln, ex, al, FALSE, editing) :
      emb \in BOOLEAN, ep \in BOOLEAN, ce \in BOOLEAN, ed \in BOOLEAN, rep \in BOOLEAN,
      vp \in BOOLEAN, pl \in Plugins, lib \in BOOLEAN, acc \in BOOLEAN, url \in BOOLEAN,
      ln \in 0..MaxLinks, ex \in ExtRegistries, al \in BOOLEAN, editing \in BOOLEAN }

\* what the registry of the panel menu extension point may hold
ExtensionPool ==
  {Ext("link", "A", "a"), Ext("link", "B", "b"), Ext("link", "C", "c"),
   Ext("link", "D", "d"), Ext("link", "", "no title"), Ext("link", "No description", ""),
   Ext("component", "Component", "component")}

RegistriesOfLen(n) == [1..n -> ExtensionPool]

AllRegistries == UNION {RegistriesOfLen(n) : n \in 0..MaxExtensions}

\* one dashboard that is not embedded, over every registry
ExtEnvs ==
  { MkEnv(FALSE, FALSE, TRUE, TRUE, FALSE, FALSE, <<"timeseries", "list">>, FALSE, TRUE,
          TRUE, 0, ex, TRUE, FALSE, FALSE) : ex \in AllRegistries }

\* the dashboards the interleaved runs start from
StartEnvs ==
  { MkEnv(emb, FALSE, TRUE, TRUE, FALSE, FALSE, pl, FALSE, TRUE, TRUE, 0, <<>>, TRUE,
          dirty, FALSE) :
      emb \in BOOLEAN, pl \in {<<"timeseries", "list">>, <<"piechart", "table">>},
      dirty \in BOOLEAN }

\* the dashboard state that changes while the menu is being built
ChangingFlags == {"isEmbedded", "editPanel", "exploreUrl", "isDirty"}

NoLocals ==
  [isEmbedded |-> FALSE, access |-> FALSE, isReadOnlyRepeat |-> FALSE,
   items |-> <<>>, subMenu |-> <<>>, moreSubMenu |-> <<>>]

InitRest ==
  /\ items = <<>>
  /\ pc = [a \in Acts |-> "idle"]
  /\ loc = [a \in Acts |-> NoLocals]
  /\ started = <<>>
  /\ computed = [a \in Acts |-> <<>>]
  /\ didSet = [a \in Acts |-> FALSE]
  /\ allEmbedded = TRUE
  /\ errorLog = 0
  /\ unhandled = 0
  /\ changes = 0
  /\ modals = 0
  /\ removeClicks = 0
  /\ confirms = 0
  /\ removeCalls = 0
  /\ alertClicks = 0
  /\ pendingSaves = 0
  /\ navigations = 0
  /\ notifications = 0

Init == env \in StartEnvs /\ InitRest

InitFlags == env \in AllEnvs /\ InitRest

InitExt == env \in ExtEnvs /\ InitRest

\* ------------------------------------------------------------ activation
\* menu.setState({ items: list }) by activation a, which then returns
SetState(a, list) ==
  /\ items' = list
  /\ computed' = [computed EXCEPT ![a] = list]
  /\ didSet' = [didSet EXCEPT ![a] = TRUE]
  /\ pc' = [pc EXCEPT ![a] = "done"]
  /\ loc' = [loc EXCEPT ![a] = NoLocals]

Catch_Partial(a) ==
  /\ pc' = [pc EXCEPT ![a] = "failed"]
  /\ loc' = [loc EXCEPT ![a] = NoLocals]
  /\ errorLog' = errorLog + 1
  /\ items' = loc[a].items \o loc[a].subMenu
  /\ UNCHANGED <<computed, didSet, unhandled>>

\* asyncFunc().catch(err => console.error(...)): the rejection is logged
Catch(a) ==
  /\ pc' = [pc EXCEPT ![a] = "failed"]
  /\ loc' = [loc EXCEPT ![a] = NoLocals]
  /\ errorLog' = errorLog + 1
  /\ UNCHANGED <<items, computed, didSet, unhandled>>

IsEmbedded_ReadLate(a) == env.isEmbedded

\* const { isEmbedded } = dashboard.state.meta, read when the activation starts
IsEmbedded(a) == loc[a].isEmbedded

\* The menu is activated: asyncFunc runs up to the await of getExploreMenuItem.
Start(a) ==
  /\ pc[a] = "idle"
  /\ ~env.removed
  /\ pc' = [pc EXCEPT ![a] = "awaitExplore"]
  /\ loc' = [loc EXCEPT ![a] = [NoLocals EXCEPT !.isEmbedded = env.isEmbedded,
                                                !.access = env.hasAccessToExplore]]
  /\ started' = Append(started, a)
  /\ allEmbedded' = (allEmbedded /\ env.isEmbedded)
  /\ UNCHANGED <<env, items, computed, didSet, errorLog, unhandled, changes>>
  /\ UNCHANGED uiVars

\* The menu is activated and the code before the first await throws.
StartThrows(a) ==
  /\ pc[a] = "idle"
  /\ ~env.removed
  /\ started' = Append(started, a)
  /\ allEmbedded' = (allEmbedded /\ env.isEmbedded)
  /\ Catch(a)
  /\ UNCHANGED <<env, changes>>
  /\ UNCHANGED uiVars

\* getExploreMenuItem resolved: the embedded case, or the build up to the
\* await of getDataSources.
ResumeExplore(a) ==
  /\ pc[a] = "awaitExplore"
  /\ LET exploreMenuItem == ExploreMenuItem(loc[a].access, env.exploreUrl)
         isReadOnlyRepeat == env.isRepeatClone
     IN  IF IsEmbedded(a)
         THEN IF exploreMenuItem # <<>>
              THEN SetState(a, exploreMenuItem)
              ELSE /\ pc' = [pc EXCEPT ![a] = "done"]
                   /\ loc' = [loc EXCEPT ![a] = NoLocals]
                   /\ UNCHANGED <<items, computed, didSet>>
         ELSE /\ pc' = [pc EXCEPT ![a] = "awaitDataSources"]
              /\ loc' = [loc EXCEPT ![a] =
                           [@ EXCEPT !.isReadOnlyRepeat = isReadOnlyRepeat,
                                     !.items = MainItems(env, isReadOnlyRepeat),
                                     !.subMenu = SubMenuItems(env, exploreMenuItem),
                                     !.moreSubMenu = MoreSubMenuItems(env, isReadOnlyRepeat)]]
              /\ UNCHANGED <<items, computed, didSet>>
  /\ UNCHANGED <<env, started, allEmbedded, errorLog, unhandled, changes>>
  /\ UNCHANGED uiVars

\* getDataSources resolved: getCreateAlertInMenuAvailability is called.
ResumeDataSources(a) ==
  /\ pc[a] = "awaitDataSources"
  /\ pc' = [pc EXCEPT ![a] = "awaitAvailability"]
  /\ UNCHANGED <<env, items, loc, started, computed, didSet, allEmbedded, errorLog,
                 unhandled, changes>>
  /\ UNCHANGED uiVars

\* getCreateAlertInMenuAvailability resolved: the rest of the build and setState.
ResumeAvailability(a) ==
  /\ pc[a] = "awaitAvailability"
  /\ SetState(a, FinalItems(loc[a].items, loc[a].subMenu, loc[a].moreSubMenu,
                            env.canCreateAlertRule, loc[a].isReadOnlyRepeat))
  /\ UNCHANGED <<env, started, allEmbedded, errorLog, unhandled, changes>>
  /\ UNCHANGED uiVars

\* An awaited call rejects, or the code that follows it throws.
Throw(a) ==
  /\ pc[a] \in {"awaitExplore", "awaitDataSources", "awaitAvailability"}
  /\ Catch(a)
  /\ UNCHANGED <<env, started, allEmbedded, changes>>
  /\ UNCHANGED uiVars

\* The dashboard changes under the menu (panel edit entered or left, a change
\* that dirties it, another explore target, ...).
DashboardStateChange(f) ==
  /\ changes < MaxChanges
  /\ ~env.removed
  /\ env' = [env EXCEPT ![f] = ~@]
  /\ changes' = changes + 1
  /\ UNCHANGED actVars
  /\ UNCHANGED uiVars

\* ---------------------------------------------------------- click handlers
TopLevel(text, icon) == \E i \in 1..Len(items) :
  items[i].text = text /\ items[i].iconClassName = icon

InMore(text) == \E i \in 1..Len(items) :
  /\ items[i].text = "More..."
  /\ \E j \in 1..Len(items[i].subMenu) : items[i].subMenu[j].text = text

Clicks == removeClicks + alertClicks

ClickRemove_NoConfirm ==
  /\ TopLevel("", "times")
  /\ ~env.removed
  /\ Clicks < MaxClicks
  /\ removeClicks' = removeClicks + 1
  /\ removeCalls' = removeCalls + 1
  /\ env' = [env EXCEPT !.removed = TRUE]
  /\ UNCHANGED <<changes, modals, confirms, alertClicks, pendingSaves,
                 navigations, notifications>>
  /\ UNCHANGED actVars

\* onClick of the remove item: publishes the ShowConfirmModalEvent
ClickRemove ==
  /\ TopLevel("", "times")
  /\ ~env.removed
  /\ Clicks < MaxClicks
  /\ removeClicks' = removeClicks + 1
  /\ modals' = modals + 1
  /\ UNCHANGED <<env, changes, confirms, removeCalls, alertClicks, pendingSaves,
                 navigations, notifications>>
  /\ UNCHANGED actVars

\* onConfirm of the modal: dashboard.removePanel(panel)
ConfirmRemove ==
  /\ modals > 0
  /\ modals' = modals - 1
  /\ confirms' = confirms + 1
  /\ removeCalls' = removeCalls + 1
  /\ env' = [env EXCEPT !.removed = TRUE]
  /\ UNCHANGED <<changes, removeClicks, alertClicks, pendingSaves, navigations,
                 notifications>>
  /\ UNCHANGED actVars

\* The modal is dismissed: no callback of the event runs.
DismissRemove ==
  /\ modals > 0
  /\ modals' = modals - 1
  /\ UNCHANGED <<env, changes, removeClicks, confirms, removeCalls, alertClicks,
                 pendingSaves, navigations, notifications>>
  /\ UNCHANGED actVars

ClickNewAlertRule_NoWait ==
  /\ InMore("New alert rule")
  /\ ~env.removed
  /\ Clicks < MaxClicks
  /\ alertClicks' = alertClicks + 1
  /\ navigations' = navigations + 1
  /\ pendingSaves' = IF env.isDirty THEN pendingSaves + 1 ELSE pendingSaves
  /\ UNCHANGED <<env, changes, modals, removeClicks, confirms, removeCalls, notifications>>
  /\ UNCHANGED actVars

\* onClick of "New alert rule"
ClickNewAlertRule ==
  /\ InMore("New alert rule")
  /\ ~env.removed
  /\ Clicks < MaxClicks
  /\ alertClicks' = alertClicks + 1
  /\ IF env.isDirty
     THEN /\ pendingSaves' = pendingSaves + 1
          /\ UNCHANGED navigations
     ELSE /\ navigations' = navigations + 1
          /\ UNCHANGED pendingSaves
  /\ UNCHANGED <<env, changes, modals, removeClicks, confirms, removeCalls, notifications>>
  /\ UNCHANGED actVars

\* saveAndUpdate reports through dashboard.onSaveCompleted, which is onSuccess
SaveCompleted ==
  /\ pendingSaves > 0
  /\ pendingSaves' = pendingSaves - 1
  /\ navigations' = navigations + 1
  /\ env' = [env EXCEPT !.isDirty = FALSE]
  /\ UNCHANGED <<changes, modals, removeClicks, confirms, removeCalls, alertClicks,
                 notifications>>
  /\ UNCHANGED actVars

\* saveAndUpdate reports through dashboard.onSaveError, which is onError
SaveError ==
  /\ pendingSaves > 0
  /\ pendingSaves' = pendingSaves - 1
  /\ notifications' = notifications + 1
  /\ UNCHANGED <<env, changes, modals, removeClicks, confirms, removeCalls, alertClicks,
                 navigations>>
  /\ UNCHANGED actVars

\* onClick of "Convert to table": convertPieChartToTable(panel)
ConvertPieChartToTable ==
  /\ InMore("Convert to table")
  /\ ~env.removed
  /\ env.pluginId # "table"
  /\ env' = [env EXCEPT !.pluginId = "table", !.legendDisplayMode = "none"]
  /\ UNCHANGED changes
  /\ UNCHANGED uiVars
  /\ UNCHANGED actVars

\* ---------------------------------------------------------- specifications
\* Overlapping activations of the behaviour while the dashboard changes.
Next ==
  \/ \E a \in Acts : Start(a)
  \/ \E a \in Acts : StartThrows(a)
  \/ \E a \in Acts : ResumeExplore(a)
  \/ \E a \in Acts : ResumeDataSources(a)
  \/ \E a \in Acts : ResumeAvailability(a)
  \/ \E a \in Acts : Throw(a)
  \/ \E f \in ChangingFlags : DashboardStateChange(f)

Spec == Init /\ [][Next]_vars

\* One activation over every combination of inputs, the dashboard standing still.
NextFlags ==
  \/ Start(1)
  \/ ResumeExplore(1)
  \/ ResumeDataSources(1)
  \/ ResumeAvailability(1)

SpecFlags == InitFlags /\ [][NextFlags]_vars

\* One activation, then the clicks on the items it set and what follows them.
NextClicks ==
  \/ Start(1)
  \/ ResumeExplore(1)
  \/ ResumeDataSources(1)
  \/ ResumeAvailability(1)
  \/ \E f \in ChangingFlags : DashboardStateChange(f)
  \/ ClickRemove
  \/ ConfirmRemove
  \/ DismissRemove
  \/ ClickNewAlertRule
  \/ SaveCompleted
  \/ SaveError
  \/ ConvertPieChartToTable

SpecClicks == Init /\ [][NextClicks]_vars

\* One activation over every registry of plugin extensions.
NextExt ==
  \/ Start(1)
  \/ ResumeExplore(1)
  \/ ResumeDataSources(1)
  \/ ResumeAvailability(1)

SpecExt == InitExt /\ [][NextExt]_vars

TypeOK ==
  /\ pc \in [Acts -> {"idle", "awaitExplore", "awaitDataSources", "awaitAvailability",
                      "done", "failed"}]
  /\ Len(started) <= MaxActivations


\* ------------------------------------------------------------ properties
Done(a) == pc[a] = "done"

Texts(list) == {list[i].text : i \in 1..Len(list)}

\* the texts of the entries one level below the top
SecondLevelTexts == UNION {Texts(items[i].subMenu) : i \in 1..Len(items)}

\* C1: while every activation so far found the dashboard embedded, the menu's
\* items are empty or exactly the single Explore item.
C1_EmbeddedOnlyExplore == allEmbedded => items \in {<<>>, <<ExploreItem>>}

C1_Witness ==
  /\ allEmbedded
  /\ Len(started) >= 2
  /\ \A a \in Acts : pc[a] # "idle" => Done(a)
  /\ changes > 0
  /\ items = <<ExploreItem>>

\* C2: no entry inside the subMenu of a top-level item carries a subMenu of
\* its own.
C2_NestedOneLevel ==
  \A i \in 1..Len(items) : \A j \in 1..Len(items[i].subMenu) :
    ~items[i].subMenu[j].hasSubMenu

\* C3: once no activation is in flight, the items on the menu are those
\* computed by the activation that started last (when it set any).
C3_LastStartedWins ==
  LET last == started[Len(started)]
  IN  (/\ Len(started) >= 2
       /\ \A a \in Acts : pc[a] \in {"idle", "done", "failed"}
       /\ didSet[last])
      => items = computed[last]

\* C4: a click on "New alert rule" over a dirty dashboard starts a save and
\* does not navigate; navigation then happens only when that save reports
\* completion; a failed save dispatches the notification and does not
\* navigate; a click over a clean dashboard navigates at once without a save.
C4_SavedBeforeAlerting ==
  [][/\ (alertClicks' = alertClicks + 1 /\ env.isDirty)
          => (navigations' = navigations /\ pendingSaves' = pendingSaves + 1)
     /\ (alertClicks' = alertClicks + 1 /\ ~env.isDirty)
          => (navigations' = navigations + 1 /\ pendingSaves' = pendingSaves)
     /\ (navigations' # navigations /\ alertClicks' = alertClicks)
          => (/\ pendingSaves > 0
              /\ pendingSaves' = pendingSaves - 1
              /\ notifications' = notifications)
     /\ (notifications' # notifications)
          => (/\ pendingSaves > 0
              /\ pendingSaves' = pendingSaves - 1
              /\ notifications' = notifications + 1
              /\ navigations' = navigations)
     /\ navigations' + notifications' + pendingSaves' = alertClicks']_vars

C4_Witness == alertClicks = 2 /\ notifications = 1 /\ navigations = 1 /\ env.isDirty = FALSE

\* C5: a failing activation logs the error once, leaves no unhandled
\* rejection, leaves the menu's items as they are and has never called
\* setState.
C5_FailureLeavesMenu ==
  /\ [](unhandled = 0)
  /\ [][\A a \in Acts : (pc[a] # "failed" /\ pc'[a] = "failed")
          => (/\ items' = items
              /\ errorLog' = errorLog + 1
              /\ unhandled' = unhandled
              /\ ~didSet'[a])]_vars

C5_Witness ==
  /\ errorLog = 1
  /\ items # <<>>
  /\ \E a \in Acts : pc[a] = "failed" /\ ~didSet[a]

\* C6: for a dashboard that is not embedded the top-level items come in the
\* order View, Edit, Exit fullscreen, Remove, Share, Explore, Inspect,
\* extension items, More...; Share and Inspect are always there, and Inspect
\* holds Data, Query, Panel JSON.
Rank(item) ==
  CASE item.text = "View" -> 1
    [] item.text = "Edit" -> 2
    [] item.text = "Exit fullscreen" -> 3
    [] item.text = "" /\ item.iconClassName = "times" -> 4
    [] item.text = "Share" -> 5
    [] item.text = "Explore" -> 6
    [] item.text = "Inspect" -> 7
    [] item.text = "More..." -> 9
    [] OTHER -> 8

C6_TopLevelOrder ==
  (Done(1) /\ ~env.isEmbedded) =>
    /\ \A i, j \in 1..Len(items) :
         i < j => \/ Rank(items[i]) < Rank(items[j])
                  \/ (Rank(items[i]) = 8 /\ Rank(items[j]) = 8)
    /\ TopLevel("Share", "share-alt")
    /\ \E i \in 1..Len(items) :
         /\ items[i].text = "Inspect"
         /\ items[i].hasSubMenu
         /\ [k \in 1..Len(items[i].subMenu) |-> items[i].subMenu[k].text]
              = <<"Data", "Query", "Panel JSON">>

C6_Witness == Done(1) /\ ~env.isEmbedded /\ Len(items) = 9

\* C7: for a dashboard that is not embedded, Edit is there exactly when the
\* dashboard can be edited, is editable, the panel is no repeat clone and no
\* panel is being edited; flipping isEditing alone does not change that.
HasEdit(list) == \E i \in 1..Len(list) : list[i] = EditItem

C7_EditRegardlessOfEditing ==
  (Done(1) /\ ~env.isEmbedded) =>
    /\ HasEdit(items) <=> (/\ env.canEditDashboard
                           /\ env.editable
                           /\ ~env.isRepeatClone
                           /\ ~env.editPanel)
    /\ HasEdit(items) <=> HasEdit(PanelMenuItems([env EXCEPT !.isEditing = ~@]))

C7_Witness == Done(1) /\ ~env.isEmbedded /\ HasEdit(items) /\ ~env.isEditing

\* C8: a click on the remove item opens the confirm modal and removes
\* nothing; removePanel is called only by a confirm of an open modal; a
\* dismissed modal changes nothing of the dashboard.
C8_RemoveOnlyAfterConfirm ==
  /\ [](removeCalls = confirms /\ confirms + modals <= removeClicks)
  /\ [][/\ (removeClicks' = removeClicks + 1)
             => (modals' = modals + 1 /\ removeCalls' = removeCalls /\ env' = env)
        /\ (removeCalls' # removeCalls)
             => (/\ modals > 0
                 /\ modals' = modals - 1
                 /\ confirms' = confirms + 1
                 /\ removeCalls' = removeCalls + 1)
        /\ (modals' < modals /\ confirms' = confirms)
             => (env' = env /\ removeCalls' = removeCalls)]_vars

C8_Witness == removeClicks = 2 /\ modals = 0 /\ removeCalls = 1 /\ env.removed

\* C9: for a repeat clone the menu holds none of Edit, Duplicate, Copy,
\* Remove and New alert rule.
C9_RepeatCloneReadOnly ==
  (Done(1) /\ env.isRepeatClone) =>
    /\ ~TopLevel("", "times")
    /\ {"Edit", "Duplicate", "Copy", "New alert rule"}
         \cap (Texts(items) \cup SecondLevelTexts) = {}

C9_Witness ==
  /\ Done(1) /\ env.isRepeatClone /\ ~env.isEmbedded
  /\ env.canEditDashboard /\ env.editable /\ ~env.editPanel /\ env.canCreateAlertRule
  /\ Len(items) > 0

\* C10: for a dashboard that is not embedded "More..." is there, once and
\* last, and "Get help" is the last entry of its sub menu and occurs once.
C10_MoreAndGetHelp ==
  (Done(1) /\ ~env.isEmbedded) =>
    /\ Len(items) > 0
    /\ \A i \in 1..Len(items) : items[i].text = "More..." <=> i = Len(items)
    /\ LET more == items[Len(items)].subMenu
       IN  /\ items[Len(items)].hasSubMenu
           /\ Len(more) > 0
           /\ \A j \in 1..Len(more) : more[j] = GetHelpItem <=> j = Len(more)

C10_Witness ==
  /\ Done(1) /\ ~env.isEmbedded
  /\ ~env.canCreateAlertRule /\ ~env.canEditDashboard /\ env.isLibraryPanel
  /\ env.links = 0
  /\ Len(items[Len(items)].subMenu) = 2


\* C11: the extension items of the menu are those of the first three
\* extensions of the registry, in registry order, that are links with a
\* title and a description; no other extension contributes an item.
QualifyingAt(i) ==
  /\ env.extensions[i].type = "link"
  /\ env.extensions[i].title # ""
  /\ env.extensions[i].description # ""

Qualifying == {i \in 1..Len(env.extensions) : QualifyingAt(i)}

\* the qualifying extensions with fewer than three qualifying ones before them
PassedOn == {i \in Qualifying : Cardinality({j \in Qualifying : j < i}) < 3}

\* the texts of the top-level items between Inspect and More...
ExtensionTexts ==
  LET inspect == CHOOSE i \in 1..Len(items) : items[i].text = "Inspect"
  IN  [k \in 1..(Len(items) - 1 - inspect) |-> items[inspect + k].text]

C11_FirstThreeLinkExtensions ==
  (Done(1) /\ ~env.isEmbedded) =>
    /\ Len(ExtensionTexts) = Cardinality(PassedOn)
    /\ Len(ExtensionTexts) <= 3
    /\ \A i \in PassedOn :
         ExtensionTexts[Cardinality({j \in PassedOn : j < i}) + 1] = env.extensions[i].title

C11_Witness ==
  /\ Done(1) /\ ~env.isEmbedded
  /\ Cardinality(Qualifying) = 4
  /\ Len(env.extensions) = 5
  /\ ~QualifyingAt(2)
  /\ Len(ExtensionTexts) = 3

====
